---- MODULE Spec2Model ----
(***************************************************************************)
(* Model of app/processor.py: validate_input_message,                      *)
(* simulate_technical_strategy and process_message, driven by a bounded    *)
(* number of caller threads.  Python dicts live on a heap of references so *)
(* that "the same mapping" (identity) and "an equal mapping" (contents)    *)
(* are different things, and mutation of an argument is observable.        *)
(***************************************************************************)
EXTENDS Integers, FiniteSets, Sequences, TLC

\* ---------------------------------------------------------------- bounds
NumThreads == 2      \* caller threads that may be inside a call at once
MaxCalls == 3        \* calls one caller makes one after the other

Threads == 1..NumThreads

\* ---------------------------------------------------------------- values
\* A Python value is tagged with its type; v is its repr.
PyStr(s) == [t |-> "str", v |-> s]
PyInt(s) == [t |-> "int", v |-> s]
PyFloat(s) == [t |-> "float", v |-> s]
PyNone == [t |-> "NoneType", v |-> "None"]

SymbolValues == {PyStr("AAPL"), PyStr("MSFT"), PyInt("42")}
TimestampValues == {PyStr("2024-01-01T00:00:00Z")}
PriceValues == {PyFloat("187.5")}

\* The keys, in fixed order, and for each key the values a caller may send.
Keys == <<"symbol", "timestamp", "price">>
ValuesOf(k) ==
    IF k = "symbol" THEN SymbolValues
    ELSE IF k = "timestamp" THEN TimestampValues
    ELSE PriceValues

KeySet == {Keys[i] : i \in DOMAIN Keys}

\* Every dict[str, Any] the callers of this model send: any subset of the
\* keys, each present key bound to one of its values.
RawMessages ==
    UNION {{m \in [D -> UNION {ValuesOf(k) : k \in KeySet}] :
                \A k \in D : m[k] \in ValuesOf(k)} : D \in SUBSET KeySet}

\* ---------------------------------------------------------------- errors
NoExc == [type |-> "", args |-> ""]
ValueError(text) == [type |-> "ValueError", args |-> text]
KeyError(k) == [type |-> "KeyError", args |-> k]

\* ---------------------------------------------------------------- heap
NoRef == 0

\* A reference not in use.  Each thread allocates from its own arena (the
\* references congruent to its number), so the reference an allocation gets
\* does not depend on what other threads allocated.  `near` is the thread's
\* number or a reference of its arena.
Arena(near) ==
    {r \in 1..(NumThreads * (MaxCalls + 3)) : r % NumThreads = near % NumThreads}

NewRef(h, near) ==
    CHOOSE r \in Arena(near) \ DOMAIN h :
        \A q \in Arena(near) \ DOMAIN h : r <= q

Alloc(h, near, obj) ==
    [r \in DOMAIN h \cup {NewRef(h, near)} |-> IF r = NewRef(h, near) THEN obj ELSE h[r]]

Free(h, refs) == [r \in DOMAIN h \ refs |-> h[r]]

\* dict.get(key): the value, or None when the key is absent.
DictGet(d, k) == IF k \in DOMAIN d THEN d[k] ELSE PyNone

\* ---------------------------------------------------------------- logging
LogRecord(level, text, arg) == [level |-> level, text |-> text, arg |-> arg]
NoArg == {}

VARIABLES
    heap,        \* reference -> dict contents
    log,         \* records emitted through the module-level logger
    pc,          \* per thread: "idle", "L77", "L78", "L50", "done"
    entry,       \* per thread: the function the caller invoked
    message,     \* per thread: reference of the caller's dict
    orig,        \* per thread: contents of the caller's dict at call time
    validated,   \* per thread: process_message's local `validated`
    outcome,     \* per thread: what the caller receives
    predEvals,   \* per thread: evaluations of validate_message_schema
    simCalls,    \* per thread: invocations of simulate_technical_strategy
    history,     \* completed calls, as the callers observed them
    ncalls       \* calls started so far

vars == <<heap, log, pc, entry, message, orig, validated, outcome,
          predEvals, simCalls, history, ncalls>>

NoOutcome == [kind |-> "none", ref |-> NoRef, exc |-> NoExc]
Returned(r) == [kind |-> "return", ref |-> r, exc |-> NoExc]
Raised(e) == [kind |-> "raise", ref |-> NoRef, exc |-> e]

\* ---------------------------------------------------------------- schema
\* app.utils.validate_data.validate_message_schema: true exactly when the
\* mapping has the required fields with acceptable types.
RequiredKeys == {"symbol", "timestamp"}

validate_message_schema(m) ==
    /\ RequiredKeys \subseteq DOMAIN m
    /\ m["symbol"].t = "str"
    /\ m["timestamp"].t \in {"str", "int", "float"}

\* ---------------------------------------------------------------- validate
\* Mutant: the failure is logged but not raised; the message is returned.
validate_input_message_swallow(ref) ==
    LET debug == LogRecord("DEBUG", "Validating input message schema...", NoArg)
        error == LogRecord("ERROR", "Invalid message schema: %s", {heap[ref]})
    IN  IF ~validate_message_schema(heap[ref])
        THEN [heap |-> heap, log |-> log \cup {debug, error}, raised |-> FALSE,
              value |-> ref, exc |-> NoExc, evals |-> 1]
        ELSE [heap |-> heap, log |-> log \cup {debug}, raised |-> FALSE,
              value |-> ref, exc |-> NoExc, evals |-> 1]

\* Mutant: an accepted message is returned as a copy, dict(message).
validate_input_message_copy(ref) ==
    LET debug == LogRecord("DEBUG", "Validating input message schema...", NoArg)
        error == LogRecord("ERROR", "Invalid message schema: %s", {heap[ref]})
    IN  IF ~validate_message_schema(heap[ref])
        THEN [heap |-> heap, log |-> log \cup {debug, error}, raised |-> TRUE,
              value |-> NoRef, exc |-> ValueError("Invalid message format"),
              evals |-> 1]
        ELSE [heap |-> Alloc(heap, ref, heap[ref]), log |-> log \cup {debug},
              raised |-> FALSE, value |-> NewRef(heap, ref), exc |-> NoExc,
              evals |-> 1]

\* Mutant: the schema predicate is evaluated a second time before returning.
validate_input_message_twice(ref) ==
    LET debug == LogRecord("DEBUG", "Validating input message schema...", NoArg)
        error == LogRecord("ERROR", "Invalid message schema: %s", {heap[ref]})
    IN  IF ~validate_message_schema(heap[ref])
        THEN [heap |-> heap, log |-> log \cup {debug, error}, raised |-> TRUE,
              value |-> NoRef, exc |-> ValueError("Invalid message format"),
              evals |-> 1]
        ELSE [heap |-> heap, log |-> log \cup {debug}, raised |-> FALSE,
              value |-> ref, exc |-> NoExc, evals |-> 2]

\* The result of a call: the heap and log it leaves, whether it raised, the
\* reference it returned or the exception it raised, and how many times it
\* evaluated the schema predicate.
validate_input_message(ref) ==
    LET debug == LogRecord("DEBUG", "Validating input message schema...", NoArg)
        error == LogRecord("ERROR", "Invalid message schema: %s", {heap[ref]})
    IN  IF ~validate_message_schema(heap[ref])
        THEN [heap |-> heap, log |-> log \cup {debug, error}, raised |-> TRUE,
              value |-> NoRef, exc |-> ValueError("Invalid message format"),
              evals |-> 1]
        ELSE [heap |-> heap, log |-> log \cup {debug}, raised |-> FALSE,
              value |-> ref, exc |-> NoExc, evals |-> 1]

\* ---------------------------------------------------------------- simulate
ResultKeys == {"symbol", "timestamp", "strategy", "signal", "confidence"}

\* Mutant: the signal is "sell".
SignalResult_sell(msg) ==
    [symbol |-> msg["symbol"],
     timestamp |-> msg["timestamp"],
     strategy |-> PyStr("SMA_Crossover"),
     signal |-> PyStr("sell"),
     confidence |-> PyFloat("0.85")]

\* Mutant: the result starts as a copy of the message, {**message, ...}.
SignalResult_spread(msg) ==
    [k \in DOMAIN msg \cup ResultKeys |->
        IF k = "strategy" THEN PyStr("SMA_Crossover")
        ELSE IF k = "signal" THEN PyStr("buy")
        ELSE IF k = "confidence" THEN PyFloat("0.85")
        ELSE msg[k]]

\* Mutant: the signal depends on whether a signal was generated before.
SignalResult_drift(msg) ==
    [symbol |-> msg["symbol"],
     timestamp |-> msg["timestamp"],
     strategy |-> PyStr("SMA_Crossover"),
     signal |-> IF \E r \in log : r.level = "INFO" THEN PyStr("sell") ELSE PyStr("buy"),
     confidence |-> PyFloat("0.85")]

\* The dict literal of lines 53-59.
SignalResult(msg) ==
    [symbol |-> msg["symbol"],
     timestamp |-> msg["timestamp"],
     strategy |-> PyStr("SMA_Crossover"),
     signal |-> PyStr("buy"),
     confidence |-> PyFloat("0.85")]

\* Mutant: the fields are written into the message, which is returned.
simulate_technical_strategy_in_place(ref) ==
    LET msg == heap[ref]
        debug == LogRecord("DEBUG", "Simulating technical strategy for symbol: %s",
                           {DictGet(msg, "symbol")})
        written == [k \in DOMAIN msg \cup {"strategy"} |->
                        IF k = "strategy" THEN PyStr("SMA_Crossover") ELSE msg[k]]
    IN  IF "symbol" \notin DOMAIN msg
        THEN [heap |-> [heap EXCEPT ![ref] = written], log |-> log \cup {debug},
              raised |-> TRUE, value |-> NoRef, exc |-> KeyError("symbol")]
        ELSE IF "timestamp" \notin DOMAIN msg
        THEN [heap |-> [heap EXCEPT ![ref] = written], log |-> log \cup {debug},
              raised |-> TRUE, value |-> NoRef, exc |-> KeyError("timestamp")]
        ELSE LET result == SignalResult(msg)
                 info == LogRecord("INFO", "Generated signal: %s", {result})
             IN  [heap |-> [heap EXCEPT ![ref] = result], log |-> log \cup {debug, info},
                  raised |-> FALSE, value |-> ref, exc |-> NoExc]

\* Mutant: the message is read from a module-level "latest message" slot,
\* here the most recently allocated dict, instead of from the argument.
simulate_technical_strategy_shared(ref) ==
    LET latest == CHOOSE r \in DOMAIN heap : \A q \in DOMAIN heap : q <= r
        msg == heap[latest]
        debug == LogRecord("DEBUG", "Simulating technical strategy for symbol: %s",
                           {DictGet(msg, "symbol")})
    IN  IF "symbol" \notin DOMAIN msg
        THEN [heap |-> heap, log |-> log \cup {debug}, raised |-> TRUE,
              value |-> NoRef, exc |-> KeyError("symbol")]
        ELSE IF "timestamp" \notin DOMAIN msg
        THEN [heap |-> heap, log |-> log \cup {debug}, raised |-> TRUE,
              value |-> NoRef, exc |-> KeyError("timestamp")]
        ELSE LET result == SignalResult(msg)
                 info == LogRecord("INFO", "Generated signal: %s", {result})
             IN  [heap |-> Alloc(heap, ref, result), log |-> log \cup {debug, info},
                  raised |-> FALSE, value |-> NewRef(heap, ref), exc |-> NoExc]

\* Mutant: the fields are read with message.get, so a missing key gives None.
simulate_technical_strategy_get(ref) ==
    LET msg == heap[ref]
        debug == LogRecord("DEBUG", "Simulating technical strategy for symbol: %s",
                           {DictGet(msg, "symbol")})
        result == [symbol |-> DictGet(msg, "symbol"),
                   timestamp |-> DictGet(msg, "timestamp"),
                   strategy |-> PyStr("SMA_Crossover"),
                   signal |-> PyStr("buy"),
                   confidence |-> PyFloat("0.85")]
        info == LogRecord("INFO", "Generated signal: %s", {result})
    IN  [heap |-> Alloc(heap, ref, result), log |-> log \cup {debug, info},
         raised |-> FALSE, value |-> NewRef(heap, ref), exc |-> NoExc]

simulate_technical_strategy(ref) ==
    LET msg == heap[ref]
        debug == LogRecord("DEBUG", "Simulating technical strategy for symbol: %s",
                           {DictGet(msg, "symbol")})
    IN  IF "symbol" \notin DOMAIN msg
        THEN [heap |-> heap, log |-> log \cup {debug}, raised |-> TRUE,
              value |-> NoRef, exc |-> KeyError("symbol")]
        ELSE IF "timestamp" \notin DOMAIN msg
        THEN [heap |-> heap, log |-> log \cup {debug}, raised |-> TRUE,
              value |-> NoRef, exc |-> KeyError("timestamp")]
        ELSE LET result == SignalResult(msg)
                 info == LogRecord("INFO", "Generated signal: %s", {result})
             IN  [heap |-> Alloc(heap, ref, result), log |-> log \cup {debug, info},
                  raised |-> FALSE, value |-> NewRef(heap, ref), exc |-> NoExc]

OutcomeOf(r) == IF r.raised THEN Raised(r.exc) ELSE Returned(r.value)

\* ---------------------------------------------------------------- state
Init ==
    /\ heap = [r \in {} |-> PyNone]
    /\ log = {}
    /\ pc = [t \in Threads |-> "idle"]
    /\ entry = [t \in Threads |-> "none"]
    /\ message = [t \in Threads |-> NoRef]
    /\ orig = [t \in Threads |-> [k \in {} |-> PyNone]]
    /\ validated = [t \in Threads |-> NoRef]
    /\ outcome = [t \in Threads |-> NoOutcome]
    /\ predEvals = [t \in Threads |-> 0]
    /\ simCalls = [t \in Threads |-> 0]
    /\ history = {}
    /\ ncalls = 0

\* A caller builds a dict and calls process_message (e = "process") or
\* simulate_technical_strategy (e = "simulate") with it; `limit` bounds the
\* calls of one behaviour.
Call(t, m, e, limit) ==
    /\ pc[t] = "idle"
    /\ ncalls < limit
    /\ heap' = Alloc(heap, t, m)
    /\ message' = [message EXCEPT ![t] = NewRef(heap, t)]
    /\ orig' = [orig EXCEPT ![t] = m]
    /\ entry' = [entry EXCEPT ![t] = e]
    /\ pc' = [pc EXCEPT ![t] = IF e = "process" THEN "L77" ELSE "L50"]
    /\ ncalls' = ncalls + 1
    /\ UNCHANGED <<log, validated, outcome, predEvals, simCalls, history>>

\* Mutant: process_message catches the validator's exception and goes on
\* to the simulator with the raw message.
process_message_L77_recover(t) ==
    /\ pc[t] = "L77"
    /\ LET r == validate_input_message(message[t])
       IN  /\ heap' = r.heap
           /\ log' = r.log
           /\ predEvals' = [predEvals EXCEPT ![t] = @ + r.evals]
           /\ validated' = [validated EXCEPT ![t] = message[t]]
           /\ pc' = [pc EXCEPT ![t] = "L78"]
           /\ UNCHANGED outcome
    /\ UNCHANGED <<entry, message, orig, simCalls, history, ncalls>>

\* process_message, line 77: validated = validate_input_message(message).
\* There is no handler: an exception leaves process_message as it is.
process_message_L77(t) ==
    /\ pc[t] = "L77"
    /\ LET r == validate_input_message(message[t])
       IN  /\ heap' = r.heap
           /\ log' = r.log
           /\ predEvals' = [predEvals EXCEPT ![t] = @ + r.evals]
           /\ IF r.raised
              THEN /\ outcome' = [outcome EXCEPT ![t] = Raised(r.exc)]
                   /\ pc' = [pc EXCEPT ![t] = "done"]
                   /\ UNCHANGED validated
              ELSE /\ validated' = [validated EXCEPT ![t] = r.value]
                   /\ pc' = [pc EXCEPT ![t] = "L78"]
                   /\ UNCHANGED outcome
    /\ UNCHANGED <<entry, message, orig, simCalls, history, ncalls>>

\* process_message, line 78: return simulate_technical_strategy(validated).
process_message_L78(t) ==
    /\ pc[t] = "L78"
    /\ LET r == simulate_technical_strategy(validated[t])
       IN  /\ heap' = r.heap
           /\ log' = r.log
           /\ outcome' = [outcome EXCEPT ![t] = OutcomeOf(r)]
    /\ simCalls' = [simCalls EXCEPT ![t] = @ + 1]
    /\ pc' = [pc EXCEPT ![t] = "done"]
    /\ UNCHANGED <<entry, message, orig, validated, predEvals, history, ncalls>>

\* simulate_technical_strategy called by the caller itself, on its own dict.
DirectSimulate(t) ==
    /\ pc[t] = "L50"
    /\ LET r == simulate_technical_strategy(message[t])
       IN  /\ heap' = r.heap
           /\ log' = r.log
           /\ outcome' = [outcome EXCEPT ![t] = OutcomeOf(r)]
    /\ simCalls' = [simCalls EXCEPT ![t] = @ + 1]
    /\ pc' = [pc EXCEPT ![t] = "done"]
    /\ UNCHANGED <<entry, message, orig, validated, predEvals, history, ncalls>>

\* What a caller can see of an outcome: the returned dict's contents, or the
\* exception.
Observed(t) ==
    IF outcome[t].kind = "return"
    THEN [kind |-> "return", value |-> {heap[outcome[t].ref]}, exc |-> NoExc]
    ELSE [kind |-> outcome[t].kind, value |-> {}, exc |-> outcome[t].exc]

\* How many completed calls already had this entry point and input.
Occurrences(e, m) == Cardinality({h \in history : h.entry = e /\ h.input = m})

\* The caller takes the outcome and drops its references.
Return(t) ==
    /\ pc[t] = "done"
    /\ history' = history \cup
           {[entry |-> entry[t], input |-> orig[t], outcome |-> Observed(t),
             n |-> Occurrences(entry[t], orig[t]) + 1]}
    /\ heap' = Free(heap, {message[t], outcome[t].ref})
    /\ pc' = [pc EXCEPT ![t] = "idle"]
    /\ entry' = [entry EXCEPT ![t] = "none"]
    /\ message' = [message EXCEPT ![t] = NoRef]
    /\ orig' = [orig EXCEPT ![t] = [k \in {} |-> PyNone]]
    /\ validated' = [validated EXCEPT ![t] = NoRef]
    /\ outcome' = [outcome EXCEPT ![t] = NoOutcome]
    /\ predEvals' = [predEvals EXCEPT ![t] = 0]
    /\ simCalls' = [simCalls EXCEPT ![t] = 0]
    /\ UNCHANGED <<log, ncalls>>

\* Concurrent callers of process_message, one call for each thread's turn.
Next ==
    \/ \E t \in Threads, m \in RawMessages : Call(t, m, "process", NumThreads)
    \/ \E t \in Threads : process_message_L77(t)
    \/ \E t \in Threads : process_message_L78(t)
    \/ \E t \in Threads : Return(t)

Spec == Init /\ [][Next]_vars

\* One caller making calls one after the other, of process_message or of
\* simulate_technical_strategy directly.
SeqNext ==
    \/ \E m \in RawMessages, e \in {"process", "simulate"} : Call(1, m, e, MaxCalls)
    \/ process_message_L77(1)
    \/ process_message_L78(1)
    \/ DirectSimulate(1)
    \/ Return(1)

SeqSpec == Init /\ [][SeqNext]_vars

\* The concurrent callers with the scheduling the interpreter gives: a call
\* that is inside process_message is run to its end.
FairSpec ==
    /\ Spec
    /\ \A t \in Threads : WF_vars(process_message_L77(t))
    /\ \A t \in Threads : WF_vars(process_message_L78(t))

\* ---------------------------------------------------------------- claims
ViaProcess(t) == entry[t] = "process"
ViaSimulate(t) == entry[t] = "simulate"
Finished(t) == pc[t] = "done"
LacksRequired(m) == ~(RequiredKeys \subseteq DOMAIN m)
InvalidFormat == ValueError("Invalid message format")

\* C1: a call of process_message on a message that lacks "symbol" or
\* "timestamp" never reaches the simulator and ends by raising the
\* validator's error (ValueError "Invalid message format"), with no result.
C1_MissingKeyFails ==
    \A t \in Threads :
        (ViaProcess(t) /\ LacksRequired(orig[t])) =>
            /\ pc[t] \in {"L77", "done"}
            /\ simCalls[t] = 0
            /\ Finished(t) => outcome[t] = Raised(InvalidFormat)

C1_Witness ==
    \E t \in Threads :
        /\ ViaProcess(t) /\ Finished(t)
        /\ "symbol" \notin DOMAIN orig[t]
        /\ "timestamp" \in DOMAIN orig[t]
        /\ outcome[t].kind = "raise"

\* C2: a call of process_message on a message the schema predicate accepts
\* returns a dict with the input's symbol and timestamp and the constants
\* strategy "SMA_Crossover", signal "buy", confidence 0.85, whatever else
\* the input holds.
C2_ValidGivesSignal ==
    \A t \in Threads :
        (ViaProcess(t) /\ Finished(t) /\ validate_message_schema(orig[t])) =>
            /\ outcome[t].kind = "return"
            /\ outcome[t].ref \in DOMAIN heap
            /\ heap[outcome[t].ref] =
                   [symbol |-> orig[t]["symbol"],
                    timestamp |-> orig[t]["timestamp"],
                    strategy |-> PyStr("SMA_Crossover"),
                    signal |-> PyStr("buy"),
                    confidence |-> PyFloat("0.85")]

C2_Witness ==
    \E t \in Threads :
        /\ ViaProcess(t) /\ Finished(t)
        /\ orig[t] = [symbol |-> PyStr("AAPL"),
                      timestamp |-> PyStr("2024-01-01T00:00:00Z"),
                      price |-> PyFloat("187.5")]
        /\ outcome[t].kind = "return"
        /\ heap[outcome[t].ref] =
               [symbol |-> PyStr("AAPL"),
                timestamp |-> PyStr("2024-01-01T00:00:00Z"),
                strategy |-> PyStr("SMA_Crossover"),
                signal |-> PyStr("buy"),
                confidence |-> PyFloat("0.85")]

\* C3: inside process_message the simulator runs only after the validator
\* has run once and accepted; when the validator raises, the simulator is
\* not invoked, the validator is not retried, and the caller receives the
\* very exception the validator raised and no result.
C3_ValidatorThenSimulator ==
    \A t \in Threads :
        ViaProcess(t) =>
            /\ predEvals[t] <= 1
            /\ (simCalls[t] > 0 \/ pc[t] = "L78") =>
                   (predEvals[t] = 1 /\ validate_message_schema(orig[t]))
            /\ (predEvals[t] > 0 /\ validate_input_message(message[t]).raised) =>
                   /\ Finished(t)
                   /\ simCalls[t] = 0
                   /\ outcome[t] = Raised(validate_input_message(message[t]).exc)

C3_Witness ==
    \E t \in Threads :
        /\ ViaProcess(t) /\ Finished(t)
        /\ predEvals[t] = 1
        /\ simCalls[t] = 0
        /\ outcome[t] = Raised(InvalidFormat)

\* C4: when the schema predicate accepts, validate_input_message returns the
\* reference it was given, and the dict behind it still has the caller's
\* keys and values: the simulator is handed the caller's own dict.
C4_SameMapping ==
    \A t \in Threads :
        (ViaProcess(t) /\ predEvals[t] > 0 /\ validate_message_schema(orig[t])) =>
            /\ validated[t] = message[t]
            /\ heap[validated[t]] = orig[t]

C4_Witness ==
    \E t \in Threads :
        /\ ViaProcess(t) /\ pc[t] = "L78"
        /\ validated[t] = message[t]
        /\ "price" \in DOMAIN heap[validated[t]]

\* C5: from the moment of the call on, through simulate_technical_strategy
\* returning or raising, the caller's dict has the keys and values it had
\* when the call was made; the same for a dict passed to process_message.
C5_InputNotMutated ==
    \A t \in Threads :
        pc[t] # "idle" =>
            /\ message[t] \in DOMAIN heap
            /\ heap[message[t]] = orig[t]

C5_Witness ==
    /\ Finished(1) /\ ViaSimulate(1)
    /\ simCalls[1] = 1
    /\ outcome[1].kind = "return"
    /\ \E h \in history : h.entry = "simulate" /\ h.outcome.kind = "raise"
    /\ \E h \in history : h.entry = "process" /\ h.outcome.kind = "return"

\* C6: every dict the simulator returns has exactly the keys symbol,
\* timestamp, strategy, signal and confidence, also when the message
\* carries a field the schema does not name.
C6_FiveKeys ==
    \A t \in Threads :
        outcome[t].kind = "return" =>
            /\ outcome[t].ref \in DOMAIN heap
            /\ DOMAIN heap[outcome[t].ref] = ResultKeys

C6_Witness ==
    \E t \in Threads :
        /\ outcome[t].kind = "return"
        /\ validate_message_schema(orig[t])
        /\ "price" \in DOMAIN orig[t]
        /\ "price" \notin DOMAIN heap[outcome[t].ref]

\* C7: any two completed calls of process_message with the same input were
\* observed with the same outcome, whatever calls were made around them,
\* and a call that has just finished agrees with every earlier one.
C7_SameInputSameOutcome ==
    /\ \A g, h \in history :
           (g.entry = "process" /\ h.entry = "process" /\ g.input = h.input) =>
               g.outcome = h.outcome
    /\ \A t \in Threads : \A h \in history :
           (Finished(t) /\ ViaProcess(t) /\ h.entry = "process" /\ h.input = orig[t]) =>
               Observed(t) = h.outcome

C7_Witness ==
    /\ \E h \in history :
           /\ h.entry = "process" /\ h.n = 2
           /\ validate_message_schema(h.input)
           /\ h.outcome.kind = "return"
    /\ \E h \in history : h.outcome.kind = "raise"

\* What process_message gives for message m when no other call is running.
AloneOutcome(m) ==
    IF validate_message_schema(m)
    THEN [kind |-> "return",
          value |-> {[symbol |-> m["symbol"], timestamp |-> m["timestamp"],
                      strategy |-> PyStr("SMA_Crossover"), signal |-> PyStr("buy"),
                      confidence |-> PyFloat("0.85")]},
          exc |-> NoExc]
    ELSE [kind |-> "raise", value |-> {}, exc |-> InvalidFormat]

\* C8: whatever other calls are in flight or were completed by other
\* threads, a finished call of process_message has the outcome the call has
\* when run alone, and so have the calls recorded by the callers.
C8_NoInterference ==
    /\ \A t \in Threads :
           (ViaProcess(t) /\ Finished(t)) => Observed(t) = AloneOutcome(orig[t])
    /\ \A h \in history : h.entry = "process" => h.outcome = AloneOutcome(h.input)

C8_Witness ==
    \E t, u \in Threads :
        /\ t # u
        /\ ViaProcess(t) /\ Finished(t) /\ ViaProcess(u) /\ Finished(u)
        /\ outcome[t].kind = "return" /\ outcome[u].kind = "return"
        /\ orig[t]["symbol"] # orig[u]["symbol"]
        /\ heap[outcome[t].ref]["symbol"] = orig[t]["symbol"]
        /\ heap[outcome[u].ref]["symbol"] = orig[u]["symbol"]

\* C9: simulate_technical_strategy called directly on a dict without
\* "symbol" or "timestamp" raises KeyError for the first key it misses and
\* allocates no result; a call of process_message never ends in KeyError
\* and hands the simulator only dicts that have both keys.
C9_DirectKeyError ==
    \A t \in Threads :
        /\ (ViaSimulate(t) /\ Finished(t) /\ LacksRequired(orig[t])) =>
               /\ outcome[t] = Raised(KeyError(IF "symbol" \in DOMAIN orig[t]
                                               THEN "timestamp" ELSE "symbol"))
               /\ DOMAIN heap = {message[t]}
        /\ ViaProcess(t) =>
               /\ outcome[t].exc.type # "KeyError"
               /\ pc[t] = "L78" => RequiredKeys \subseteq DOMAIN heap[validated[t]]

C9_Witness ==
    /\ ViaSimulate(1) /\ Finished(1)
    /\ "symbol" \in DOMAIN orig[1]
    /\ "timestamp" \notin DOMAIN orig[1]
    /\ outcome[1] = Raised(KeyError("timestamp"))
    /\ \E h \in history : h.entry = "process" /\ h.outcome.kind = "return"

\* C10: a call of process_message ends, after at most one validator step and
\* one simulator step, with exactly one of a returned dict and an exception;
\* it returns a dict exactly when the schema predicate accepted the message,
\* and the predicate was evaluated exactly once.  A call that has not ended
\* has no outcome yet and its next step is never blocked.
C10_OneOutcome ==
    \A t \in Threads :
        ViaProcess(t) =>
            /\ predEvals[t] <= 1 /\ simCalls[t] <= 1
            /\ Finished(t) =>
                   /\ predEvals[t] = 1
                   /\ outcome[t].kind \in {"return", "raise"}
                   /\ (outcome[t].kind = "return") <=> (outcome[t].ref \in DOMAIN heap)
                   /\ (outcome[t].kind = "raise") <=> (outcome[t].exc # NoExc)
                   /\ (outcome[t].kind = "return") <=> validate_message_schema(orig[t])
            /\ ~Finished(t) => outcome[t] = NoOutcome
            /\ pc[t] = "L77" =>
                   (predEvals[t] + simCalls[t] = 0 /\ ENABLED process_message_L77(t))
            /\ pc[t] = "L78" =>
                   (predEvals[t] + simCalls[t] = 1 /\ ENABLED process_message_L78(t))

\* The same as a property of behaviours, under FairSpec: the invariant, and
\* every call that is inside process_message reaches its end.
C10_Terminates ==
    /\ []C10_OneOutcome
    /\ \A t \in Threads : (pc[t] \in {"L77", "L78"}) ~> (pc[t] = "done")

C10_Witness ==
    \E t, u \in Threads :
        /\ ViaProcess(t) /\ Finished(t) /\ outcome[t].kind = "return"
        /\ ViaProcess(u) /\ Finished(u) /\ outcome[u].kind = "raise"
        /\ predEvals[t] = 1 /\ predEvals[u] = 1

====
